---- MODULE Spec2Model ----
(***************************************************************************)
(* The scroll handler of the fixed header (#main-header) described in      *)
(* HEADER_IMPLEMENTATION.md: the header's class list and inline            *)
(* background colour, the module-level cell lastScroll, and the listener   *)
(* registered on window's scroll event.                                    *)
(***************************************************************************)
EXTENDS Integers, Sequences, FiniteSets, TLC

\* ---------------------------------------------------------------- bounds
\* Largest scroll offset (px) a notification carries.
MaxScroll == 50
\* Depth of the negative offsets (elastic overscroll reports scrollY < 0).
Overscroll == 1
\* The notification counter saturates here.
MaxNotifications == 2
\* Number of notifications recorded from page load by ScrollLogged.
MaxLog == 3

ScrollValues == (0 - Overscroll)..MaxScroll
\* The offsets recorded from page load: the top, an overscroll, and the
\* offsets of a short downward and upward scroll.
SampleOffsets == {0 - Overscroll, 0, 5, 10, 20, 30, 40, 50}

\* ------------------------------------------------------------- the page
\* document.getElementById('main-header') yields the element or null.
NULL == "null"
MainHeader == "main-header"

\* class attribute of <header id="main-header"> in Header.astro
InitialClasses ==
  {"fixed", "w-full", "bg-white", "shadow-sm", "z-50", "transition-all",
   "duration-500", "ease-in-out", "border-b", "border-gray-200"}

HiddenClasses == {"-translate-y-full", "opacity-0"}
TranslucentClasses == {"backdrop-blur-md", "border-white/20"}
AtTopClasses == {"border-gray-200", "bg-white"}
TranslucentFill == "rgba(255, 255, 255, 0.75)"
NoFill == ""

VARIABLES
  header,          \* const header: NULL or MainHeader
  classList,       \* header.classList (empty when there is no element)
  backgroundColor, \* header.style.backgroundColor
  lastScroll,      \* let lastScroll
  currentScroll,   \* window.scrollY as read by the last notification
  notifications,   \* notifications handled so far, saturating
  prev,            \* the state the last notification started from
  threw,           \* the last notification ended in a TypeError
  assigns,         \* assignments to lastScroll made by the last notification
  compared,        \* values of lastScroll its direction comparison read
  snap,            \* header states at the moments lastScroll was assigned
  log              \* notifications recorded since page load

vars == <<header, classList, backgroundColor, lastScroll, currentScroll,
          notifications, prev, threw, assigns, compared, snap, log>>

\* ------------------------------------------------- DOM operations used
\* header?.classList.remove(...tokens): nothing happens on null.
ClassListRemove(e, tokens) ==
  IF e.threw \/ e.header = NULL THEN e
  ELSE [e EXCEPT !.classList = @ \ tokens]

\* header?.classList.add(...tokens): nothing happens on null.
ClassListAddToggles(e, tokens) ==
  IF e.threw \/ e.header = NULL THEN e
  ELSE [e EXCEPT !.classList = (@ \ tokens) \cup (tokens \ @)]

ClassListAdd(e, tokens) ==
  IF e.threw \/ e.header = NULL THEN e
  ELSE [e EXCEPT !.classList = @ \cup tokens]

\* Truthiness of header?.classList.contains(token): undefined on null.
ClassListContains(e, token) ==
  e.header # NULL /\ token \in e.classList

\* header.style.backgroundColor = value: a TypeError on null.
StyleAssign(e, value) ==
  IF e.threw THEN e
  ELSE IF e.header = NULL THEN [e EXCEPT !.threw = TRUE]
  ELSE [e EXCEPT !.backgroundColor = value]

\* if (header) { header.style.backgroundColor = value; }
GuardedStyleAssignUnguarded(e, value) == StyleAssign(e, value)

GuardedStyleAssign(e, value) ==
  IF e.header # NULL THEN StyleAssign(e, value) ELSE e

\* lastScroll = currentScroll;
AssignLastScroll(e) ==
  IF e.threw THEN e
  ELSE [e EXCEPT !.lastScroll = e.currentScroll,
                 !.assigns = @ + 1,
                 !.snap = @ \cup {[classList |-> e.classList,
                                   backgroundColor |-> e.backgroundColor]}]

\* ------------------------------------------------------ the handler
\* State 1: at the very top of the page.
State1KeepsHidden(e) ==
  GuardedStyleAssign(
    ClassListAdd(ClassListRemove(e, TranslucentClasses), AtTopClasses),
    NoFill)

State1(e) ==
  GuardedStyleAssign(
    ClassListAdd(
      ClassListRemove(e, HiddenClasses \cup TranslucentClasses),
      AtTopClasses),
    NoFill)

\* The reads of lastScroll made by the two direction comparisons.
ReadLastScroll(e) == [e EXCEPT !.compared = @ \cup {e.lastScroll}]

\* States 2 and 3: hide on scrolling down, show on scrolling up.
DirectionNeverHides(e) ==
  LET r == ReadLastScroll(e) IN
  IF r.currentScroll < r.lastScroll /\ ClassListContains(r, "-translate-y-full")
  THEN ClassListRemove(r, HiddenClasses)
  ELSE r

DirectionNeverShows(e) ==
  LET r == ReadLastScroll(e) IN
  IF r.currentScroll > r.lastScroll /\ ~ClassListContains(r, "-translate-y-full")
  THEN ClassListAdd(r, HiddenClasses)
  ELSE r

DirectionAddsOnlyTranslate(e) ==
  LET r == ReadLastScroll(e) IN
  IF r.currentScroll > r.lastScroll /\ ~ClassListContains(r, "-translate-y-full")
  THEN ClassListAdd(r, {"-translate-y-full"})
  ELSE IF r.currentScroll < r.lastScroll /\ ClassListContains(r, "-translate-y-full")
  THEN ClassListRemove(r, HiddenClasses)
  ELSE r

DirectionShowKeepsOpacity(e) ==
  LET r == ReadLastScroll(e) IN
  IF r.currentScroll > r.lastScroll /\ ~ClassListContains(r, "-translate-y-full")
  THEN ClassListAdd(r, HiddenClasses)
  ELSE IF r.currentScroll < r.lastScroll /\ ClassListContains(r, "-translate-y-full")
  THEN ClassListRemove(r, {"-translate-y-full"})
  ELSE r

DirectionInverted(e) ==
  LET r == ReadLastScroll(e) IN
  IF r.currentScroll < r.lastScroll /\ ~ClassListContains(r, "-translate-y-full")
  THEN ClassListAdd(r, HiddenClasses)
  ELSE IF r.currentScroll > r.lastScroll /\ ClassListContains(r, "-translate-y-full")
  THEN ClassListRemove(r, HiddenClasses)
  ELSE r

DirectionHidesOnEqual(e) ==
  LET r == ReadLastScroll(e) IN
  IF r.currentScroll >= r.lastScroll /\ ~ClassListContains(r, "-translate-y-full")
  THEN ClassListAdd(r, HiddenClasses)
  ELSE IF r.currentScroll < r.lastScroll /\ ClassListContains(r, "-translate-y-full")
  THEN ClassListRemove(r, HiddenClasses)
  ELSE r

Direction(e) ==
  LET r == ReadLastScroll(e) IN
  IF r.currentScroll > r.lastScroll /\ ~ClassListContains(r, "-translate-y-full")
  THEN ClassListAdd(r, HiddenClasses)
  ELSE IF r.currentScroll < r.lastScroll /\ ClassListContains(r, "-translate-y-full")
  THEN ClassListRemove(r, HiddenClasses)
  ELSE r

\* State 4: any scroll away from the top makes the header translucent.
State4SkipsFill(e) ==
  ClassListAdd(ClassListRemove(e, AtTopClasses), TranslucentClasses)

State4DropsBorder(e) ==
  GuardedStyleAssign(
    ClassListAdd(ClassListRemove(e, AtTopClasses \cup {"border-b"}),
                 TranslucentClasses),
    TranslucentFill)

State4KeepsAtTop(e) ==
  GuardedStyleAssign(ClassListAdd(e, TranslucentClasses), TranslucentFill)

State4(e) ==
  GuardedStyleAssign(
    ClassListAdd(ClassListRemove(e, AtTopClasses), TranslucentClasses),
    TranslucentFill)

\* The listener's body, from the read of window.scrollY to its return.
HandlerSkipsAssignAtTop(e) ==
  IF e.currentScroll <= 0
  THEN State1(e)
  ELSE AssignLastScroll(State4(Direction(e)))

HandlerAssignsFirst(e) ==
  IF e.currentScroll <= 0
  THEN AssignLastScroll(State1(e))
  ELSE State4(Direction(AssignLastScroll(e)))

Handler(e) ==
  IF e.currentScroll <= 0
  THEN AssignLastScroll(State1(e))
  ELSE AssignLastScroll(State4(Direction(e)))

\* The listener's environment when a notification with scrollY = y arrives.
Entry(y) ==
  [header |-> header, classList |-> classList,
   backgroundColor |-> backgroundColor, lastScroll |-> lastScroll,
   currentScroll |-> y, threw |-> FALSE, assigns |-> 0,
   compared |-> {}, snap |-> {}]

\* What a notification starts from.
Before ==
  [classList |-> classList, backgroundColor |-> backgroundColor,
   lastScroll |-> lastScroll, currentScroll |-> currentScroll]

\* One scroll notification carrying scrollY = y.
Notify(y) ==
  LET r == Handler(Entry(y)) IN
    /\ classList' = r.classList
    /\ backgroundColor' = r.backgroundColor
    /\ lastScroll' = r.lastScroll
    /\ currentScroll' = y
    /\ threw' = r.threw
    /\ assigns' = r.assigns
    /\ compared' = r.compared
    /\ snap' = r.snap
    /\ prev' = Before
    /\ notifications' =
         IF notifications < MaxNotifications THEN notifications + 1
         ELSE notifications
    /\ UNCHANGED header

\* ------------------------------------------------------------ behaviour
\* Page load: the script has run once, the page is at the top.
Init ==
  /\ header \in {NULL, MainHeader}
  /\ classList = IF header = NULL THEN {} ELSE InitialClasses
  /\ backgroundColor = NoFill
  /\ lastScroll = 0
  /\ currentScroll = 0
  /\ notifications = 0
  /\ prev = Before
  /\ threw = FALSE
  /\ assigns = 0
  /\ compared = {}
  /\ snap = {}
  /\ log = <<>>

Scroll ==
  \E y \in ScrollValues : Notify(y) /\ UNCHANGED log

ScrollLogged ==
  /\ Len(log) < MaxLog
  /\ \E y \in SampleOffsets :
       /\ Notify(y)
       /\ log' = Append(log, [scrollY |-> y, classList |-> classList',
                              backgroundColor |-> backgroundColor'])

Next == Scroll

Spec == Init /\ [][Next]_vars

NextLoad == ScrollLogged

SpecLoad == Init /\ [][NextLoad]_vars

\* ------------------------------------------------------ the three flags
Hidden(cl) == HiddenClasses \subseteq cl
HiddenClear(cl) == cl \cap HiddenClasses = {}
Translucent(cl, bg) == TranslucentClasses \subseteq cl /\ bg = TranslucentFill
TranslucentClear(cl, bg) == cl \cap TranslucentClasses = {} /\ bg = NoFill
AtTop(cl, bg) == AtTopClasses \subseteq cl /\ bg = NoFill
AtTopClear(cl) == cl \cap AtTopClasses = {}

Attached == header # NULL
Notified == notifications >= 1

\* ---------------------------------------------------------------- C1
\* C1: after a notification with ScrollSignal <= 0 the header is atTop,
\* whatever state the notification started from: both hidden classes and
\* the translucent classes and fill are cleared, bg-white and
\* border-gray-200 are set.
C1_AtTopWhenScrollNotPositive ==
  (Attached /\ Notified /\ currentScroll <= 0) =>
    /\ HiddenClear(classList)
    /\ TranslucentClear(classList, backgroundColor)
    /\ AtTop(classList, backgroundColor)

\* A hidden, translucent header has been brought back to the top.
C1_Witness ==
  /\ Attached /\ Notified /\ currentScroll <= 0
  /\ Hidden(prev.classList)
  /\ Translucent(prev.classList, prev.backgroundColor)
  /\ AtTop(classList, backgroundColor)

C3_ScrollUpShowsTranslucent ==
  (Attached /\ Notified /\ Hidden(prev.classList)
     /\ 0 < currentScroll /\ currentScroll < prev.lastScroll) =>
    /\ HiddenClear(classList)
    /\ Translucent(classList, backgroundColor)
    /\ AtTopClear(classList)

\* prev = 50, curr = 40, from a hidden header.
C3_Witness ==
  /\ Attached /\ Notified /\ Hidden(prev.classList)
  /\ prev.lastScroll = 50 /\ currentScroll = 40
  /\ HiddenClear(classList)
  /\ Translucent(classList, backgroundColor)

\* ---------------------------------------------------------------- C4
\* The name of a recorded header state: hidden when the hidden flag is
\* set, else the appearance it shows.
StateName(entry) ==
  IF Hidden(entry.classList) THEN "hidden"
  ELSE IF AtTop(entry.classList, entry.backgroundColor)
            /\ TranslucentClear(entry.classList, entry.backgroundColor)
    THEN "atTop"
  ELSE IF Translucent(entry.classList, entry.backgroundColor)
            /\ AtTopClear(entry.classList)
    THEN "translucent"
  ELSE "mixed"

LoggedOffsets == [i \in 1..Len(log) |-> log[i].scrollY]
LoggedStates == [i \in 1..Len(log) |-> StateName(log[i])]

C5_RepeatedSampleIdempotent ==
  (notifications >= 2 /\ currentScroll = prev.currentScroll) =>
    /\ classList = prev.classList
    /\ backgroundColor = prev.backgroundColor
    /\ lastScroll = prev.lastScroll
    /\ lastScroll = currentScroll

\* 40 repeated on a header that is showing translucent at offset 40.
C5_Witness ==
  /\ Attached /\ notifications >= 2
  /\ currentScroll = 40 /\ prev.currentScroll = 40
  /\ HiddenClear(classList)
  /\ Translucent(classList, backgroundColor)

\* ---------------------------------------------------------------- C6
\* C6 as stated: with no header element, a notification raises no
\* exception and leaves the whole state, lastScroll included, as it was.
C6_AbsentNoMutationAtAll ==
  (~Attached /\ Notified) =>
    /\ ~threw
    /\ classList = prev.classList
    /\ backgroundColor = prev.backgroundColor
    /\ lastScroll = prev.lastScroll

\* C6 amended: with no header element, a notification raises no exception
\* and mutates no header state (no class, no inline fill); lastScroll is
\* still assigned the notification's ScrollSignal.
C6_AbsentNoHeaderMutation ==
  (~Attached /\ Notified) =>
    /\ ~threw
    /\ classList = prev.classList
    /\ backgroundColor = prev.backgroundColor
    /\ lastScroll = currentScroll

\* Without an element, both branches of the handler have run and moved
\* lastScroll.
C6_Witness ==
  /\ ~Attached /\ notifications >= 2
  /\ prev.lastScroll <= 0 /\ currentScroll > 0
  /\ lastScroll = currentScroll
  /\ ~threw

\* ---------------------------------------------------------------- C7
\* C7: once a notification has been handled, atTop and translucent are
\* never both set, the appearance classes and fill are those of exactly
\* one of the two (no mixture), and so exactly one holds whenever hidden
\* is clear.
C7_ExactlyOneAppearance ==
  (Attached /\ Notified) =>
    /\ ~(AtTop(classList, backgroundColor)
           /\ Translucent(classList, backgroundColor))
    /\ \/ AtTop(classList, backgroundColor)
            /\ TranslucentClear(classList, backgroundColor)
       \/ Translucent(classList, backgroundColor)
            /\ AtTopClear(classList)
    /\ HiddenClear(classList) =>
         (AtTop(classList, backgroundColor)
            # Translucent(classList, backgroundColor))

\* A showing, translucent header that was atTop one notification ago.
C7_Witness ==
  /\ Attached /\ Notified
  /\ HiddenClear(classList)
  /\ Translucent(classList, backgroundColor)
  /\ AtTopClear(classList)
  /\ currentScroll > 0

C9_LastScrollAssignedOnceAtEnd ==
  /\ notifications = 0 => lastScroll = 0
  /\ Notified =>
       /\ lastScroll = currentScroll
       /\ assigns = 1
       /\ snap = {[classList |-> classList,
                   backgroundColor |-> backgroundColor]}
       /\ compared \subseteq {prev.lastScroll}
       /\ prev.lastScroll = prev.currentScroll
       /\ currentScroll > 0 => compared = {prev.currentScroll}

\* A downward notification whose comparison read the previous sample and
\* changed the header before lastScroll moved.
C9_Witness ==
  /\ Attached /\ notifications >= 2
  /\ prev.currentScroll > 0 /\ currentScroll > prev.currentScroll
  /\ compared = {prev.currentScroll}
  /\ classList # prev.classList
  /\ assigns = 1 /\ lastScroll = currentScroll

\* ---------------------------------------------------------------- C10
\* C10: from page load, one notification with 10 <= ScrollSignal <= 50
\* leaves the header translucent with blur and not fully transparent: it
\* does not carry opacity-0.
C10_SlightScrollAfterLoadVisible ==
  (Attached /\ notifications = 1 /\ prev.lastScroll = 0
     /\ prev.classList = InitialClasses /\ prev.backgroundColor = NoFill
     /\ 10 <= currentScroll /\ currentScroll <= 50) =>
    /\ Translucent(classList, backgroundColor)
    /\ "opacity-0" \notin classList

\* ---------------------------------------------------------------- C11
\* C11: after every notification with ScrollSignal > 0 the header is
\* translucent and not atTop (bg-white and border-gray-200 removed,
\* backdrop-blur-md and border-white/20 added, fill rgba(255,255,255,0.75)),
\* also when ScrollSignal = PreviousScrollSignal and no direction rule
\* fires.
C11_TranslucentWhenScrolled ==
  (Attached /\ Notified /\ currentScroll > 0) =>
    /\ TranslucentClasses \subseteq classList
    /\ backgroundColor = TranslucentFill
    /\ AtTopClear(classList)

\* A header stationary at a scrolled position, reached from the top by a
\* notification and then sampled again at the same offset.
C11_Witness ==
  /\ Attached /\ notifications >= 2
  /\ currentScroll > 0 /\ currentScroll = prev.lastScroll
  /\ classList = prev.classList
  /\ Translucent(classList, backgroundColor)
  /\ AtTopClear(classList)

\* ---------------------------------------------------------------- C12
\* The six classes the handler toggles, and the other classes of the
\* header's class attribute.
ToggledClasses == HiddenClasses \cup TranslucentClasses \cup AtTopClasses
OtherClasses ==
  {"fixed", "w-full", "shadow-sm", "z-50", "transition-all", "duration-500",
   "ease-in-out", "border-b"}

\* C12: a notification changes only the six toggled classes, the inline
\* backgroundColor and lastScroll: in every reachable state the header
\* carries each of its other classes (fixed, w-full, shadow-sm, z-50,
\* transition-all, duration-500, ease-in-out, border-b), no class outside
\* the toggled and the other ones, and the same header reference.
C12_FrameOtherClasses ==
  /\ OtherClasses = InitialClasses \ ToggledClasses
  /\ Attached =>
       /\ classList \ ToggledClasses = OtherClasses
       /\ classList \ ToggledClasses = prev.classList \ ToggledClasses
       /\ backgroundColor \in {NoFill, TranslucentFill}
  /\ ~Attached => (classList = {} /\ backgroundColor = NoFill)

\* A notification has changed toggled classes, the fill and lastScroll.
C12_Witness ==
  /\ Attached /\ Notified
  /\ classList # prev.classList
  /\ backgroundColor # prev.backgroundColor
  /\ lastScroll # prev.lastScroll
  /\ classList \ ToggledClasses = OtherClasses

\* ---------------------------------------------------------------- C13
\* C13: in every reachable state a hidden class on the header implies the
\* translucent appearance and lastScroll > 0; hidden never coexists with
\* atTop (bg-white, border-gray-200), and -translate-y-full and opacity-0
\* are set or cleared together.
C13_HiddenImpliesTranslucent ==
  Attached =>
    /\ ("-translate-y-full" \in classList) = ("opacity-0" \in classList)
    /\ ~HiddenClear(classList) =>
         /\ Translucent(classList, backgroundColor)
         /\ AtTopClear(classList)
         /\ lastScroll > 0

\* A hidden header that has just been cleared and hidden again.
C13_Witness ==
  /\ Attached /\ notifications >= 2
  /\ HiddenClear(prev.classList)
  /\ Hidden(classList)
  /\ Translucent(classList, backgroundColor)
  /\ lastScroll > prev.lastScroll /\ prev.lastScroll > 0

\* ---------------------------------------------------------------- C14
\* C14: once a notification has been handled with the header attached,
\* lastScroll alone decides the appearance: translucent holds exactly when
\* lastScroll > 0, atTop exactly when lastScroll <= 0.
C14_AppearanceFromLastScroll ==
  (Attached /\ Notified) =>
    /\ Translucent(classList, backgroundColor) <=> lastScroll > 0
    /\ AtTop(classList, backgroundColor) <=> lastScroll <= 0

\* Back at the top after having been scrolled and translucent.
C14_Witness ==
  /\ Attached /\ notifications >= 2
  /\ prev.lastScroll > 0
  /\ Translucent(prev.classList, prev.backgroundColor)
  /\ lastScroll <= 0
  /\ AtTop(classList, backgroundColor)

\* ---------------------------------------------------------------- C15
\* The direction rules without their class-presence guards: hidden is set
\* when ScrollSignal > PreviousScrollSignal, cleared when it is below, and
\* left alone when they are equal.
DirectionGuardFree(e) ==
  LET r == ReadLastScroll(e) IN
  IF r.currentScroll > r.lastScroll THEN ClassListAdd(r, HiddenClasses)
  ELSE IF r.currentScroll < r.lastScroll THEN ClassListRemove(r, HiddenClasses)
  ELSE r

HandlerGuardFree(e) ==
  IF e.currentScroll <= 0
  THEN AssignLastScroll(State1(e))
  ELSE AssignLastScroll(State4(DirectionGuardFree(e)))

\* C15: from every reachable state and for every ScrollSignal > 0 the
\* handler yields the state the guard-free handler yields; so the last
\* notification left hidden set exactly when it scrolled down, or did not
\* move from a hidden header, and a set hidden flag survives every
\* notification with ScrollSignal >= PreviousScrollSignal and
\* ScrollSignal > 0.
C15_GuardsDoNotChangeOutcome ==
  /\ \A y \in ScrollValues :
       y > 0 => Handler(Entry(y)) = HandlerGuardFree(Entry(y))
  /\ (Attached /\ Notified /\ currentScroll > 0) =>
       /\ Hidden(classList) =
            IF currentScroll > prev.lastScroll THEN TRUE
            ELSE IF currentScroll < prev.lastScroll THEN FALSE
            ELSE Hidden(prev.classList)
       /\ HiddenClear(classList) = ~Hidden(classList)

\* A hidden header scrolled further down: the guard of rule 2 kept the
\* handler from adding the classes again, and hidden is still set.
C15_Witness ==
  /\ Attached /\ notifications >= 2
  /\ Hidden(prev.classList)
  /\ prev.lastScroll > 0 /\ currentScroll > prev.lastScroll
  /\ Hidden(classList)

====
